---- MODULE Spec2Model ----
(***************************************************************************)
(* Model of CrossLanguageEmpirical/soquery.py: the language tables, the    *)
(* text helpers, the two SQL builders and the two batch drivers.           *)
(*                                                                         *)
(* A Python str is a sequence of one-character strings, so that            *)
(* concatenation, replace(' ', '') and the code-point order used by        *)
(* list.sort() are computed rather than assumed.                           *)
(***************************************************************************)
EXTENDS Integers, Sequences, FiniteSets, TLC

VARIABLES
  langs,   \* the module-level list `langs`, after langs.sort()
  pc,      \* position of the running top-level call
  call,    \* the top-level function that was invoked ("none" before any)
  h_in,    \* helper session: the first argument
  h_ops,   \* helper session: names of the helpers applied so far, in order
  h_out,   \* helper session: the value returned by the last helper
  arg_a,   \* argument `a` of query_language_pair / build_sql_expr
  arg_b,   \* argument `b` of query_language_pair
  arg_path,\* argument `path` of query_language_pair
  idx,     \* 1-based position of a batch driver in its item sequence
  sql,     \* the statement text last built, as a sequence of parts
  P,       \* the row of the remote Posts table the statement is evaluated on
  df,      \* the result of the last successful remote query
  log,     \* remote queries issued and CSV files written, in order
  calls    \* invocations of query_language_pair, in order

vars == <<langs, pc, call, h_in, h_ops, h_out, arg_a, arg_b, arg_path, idx, sql, P, df, log, calls>>

(***************************************************************************)
(* Bounds of the model.                                                    *)
(***************************************************************************)
\* longest chain of helper applications explored from one argument
MaxOps == 2
\* largest Score of a row of the remote table (the smallest is -1)
MaxScore == 0

(***************************************************************************)
(* Python str order: code-point order, a proper prefix comes first.        *)
(***************************************************************************)
\* the characters of the language names, in increasing code-point order
Alphabet ==
  <<" ","#","+","a","b","c","d","e","f","g","h","i","j","k","l","m",
    "n","o","p","q","r","s","t","u","v","w","x","y","z">>

Ord(ch) == CHOOSE i \in 1..Len(Alphabet) : Alphabet[i] = ch

RECURSIVE StrLess(_, _)
StrLess(s, t) ==
  IF t = <<>> THEN FALSE
  ELSE IF s = <<>> THEN TRUE
  ELSE IF Head(s) # Head(t) THEN Ord(Head(s)) < Ord(Head(t))
  ELSE StrLess(Tail(s), Tail(t))

RECURSIVE SortInsert(_, _)
SortInsert(x, sorted) ==
  IF sorted = <<>> THEN <<x>>
  ELSE IF StrLess(x, Head(sorted)) THEN <<x>> \o sorted
  ELSE <<Head(sorted)>> \o SortInsert(x, Tail(sorted))

RECURSIVE list_sort(_)
list_sort(l) ==
  IF l = <<>> THEN <<>>
  ELSE SortInsert(l[Len(l)], list_sort(SubSeq(l, 1, Len(l) - 1)))

(***************************************************************************)
(* Module-level tables.                                                    *)
(***************************************************************************)
\* the list literal assigned to `langs`, before langs.sort()
langs_literal ==
  << <<"j","a","v","a">>,
     <<"c">>,
     <<"c","+","+">>,
     <<"c","#">>,
     <<"p","y","t","h","o","n">>,
     <<"v","i","s","u","a","l"," ","b","a","s","i","c">>,
     <<"n","o","d","e">>,
     <<"p","e","r","l">>,
     <<"p","h","p">>,
     <<"r","u","b","y">>,
     <<"g","o">>,
     <<"s","w","i","f","t">>,
     <<"o","b","j","e","c","t","i","v","e"," ","c">>,
     <<"c","o","b","o","l">>,
     <<"f","o","r","t","r","a","n">>,
     <<"l","u","a">>,
     <<"s","c","a","l","a">>,
     <<"l","i","s","p">>,
     <<"h","a","s","k","e","l","l">>,
     <<"r","u","s","t">>,
     <<"e","r","l","a","n","g">>,
     <<"c","l","o","j","u","r","e">>,
     <<"m","a","t","l","a","b">>,
     <<"p","a","s","c","a","l">>,
     <<"r">>,
     <<"k","o","t","l","i","n">> >>

\* the dict tag_langs: language name -> tag text
tag_langs ==
  ( <<"v","i","s","u","a","l"," ","b","a","s","i","c">> :> <<"v","b",".","n","e","t">> ) @@
  ( <<"n","o","d","e">> :> <<"n","o","d","e",".","j","s">> ) @@
  ( <<"o","b","j","e","c","t","i","v","e"," ","c">> :> <<"o","b","j","e","c","t","i","v","e","-","c">> )

DIR ==
  <<"/","V","o","l","u","m","e","s","/","T","a","r","D","i","s","k","/",
    "s","o","p","o","s","t","s","2">>

(***************************************************************************)
(* Utility functions for language text or language filename.               *)
(***************************************************************************)
fix_lang_text_nogo(lang) ==
  IF lang = <<"c">> THEN <<"/","\\","b","i","n"," ","c","\\","b","/">>
  ELSE IF lang = <<"r">> THEN <<"/","\\","b","i","n"," ","r","\\","b","/">>
  ELSE <<"/","\\","b">> \o lang \o <<"\\","b","/">>

fix_lang_text(lang) ==
  IF lang = <<"c">> THEN <<"/","\\","b","i","n"," ","c","\\","b","/">>
  ELSE IF lang = <<"r">> THEN <<"/","\\","b","i","n"," ","r","\\","b","/">>
  ELSE IF lang = <<"g","o">> THEN <<"/","\\","b","i","n"," ","g","o","\\","b","/">>
  ELSE <<"/","\\","b">> \o lang \o <<"\\","b","/">>

lang_file_name_c(lang) ==
  IF lang = <<"c","#">> THEN <<"c">>
  ELSE IF lang = <<"c","+","+">> THEN <<"c","p","p">>
  ELSE IF lang = <<"o","b","j","e","c","t","i","v","e"," ","c">>
       THEN <<"o","b","j","e","c","t","i","v","e","c">>
  ELSE IF lang = <<"v","i","s","u","a","l"," ","b","a","s","i","c">>
       THEN <<"v","i","s","u","a","l","b","a","s","i","c">>
  ELSE lang

lang_file_name(lang) ==
  IF lang = <<"c","#">> THEN <<"c","s">>
  ELSE IF lang = <<"c","+","+">> THEN <<"c","p","p">>
  ELSE IF lang = <<"o","b","j","e","c","t","i","v","e"," ","c">>
       THEN <<"o","b","j","e","c","t","i","v","e","c">>
  ELSE IF lang = <<"v","i","s","u","a","l"," ","b","a","s","i","c">>
       THEN <<"v","i","s","u","a","l","b","a","s","i","c">>
  ELSE lang

revert_lang_file_name_cpp(lang) ==
  IF lang = <<"c","s">> THEN <<"c","+","+">>
  ELSE IF lang = <<"c","p","p">> THEN <<"c","+","+">>
  ELSE IF lang = <<"o","b","j","e","c","t","i","v","e","c">>
       THEN <<"o","b","j","e","c","t","i","v","e"," ","c">>
  ELSE IF lang = <<"v","i","s","u","a","l","b","a","s","i","c">>
       THEN <<"v","i","s","u","a","l"," ","b","a","s","i","c">>
  ELSE lang

revert_lang_file_name(lang) ==
  IF lang = <<"c","s">> THEN <<"c","#">>
  ELSE IF lang = <<"c","p","p">> THEN <<"c","+","+">>
  ELSE IF lang = <<"o","b","j","e","c","t","i","v","e","c">>
       THEN <<"o","b","j","e","c","t","i","v","e"," ","c">>
  ELSE IF lang = <<"v","i","s","u","a","l","b","a","s","i","c">>
       THEN <<"v","i","s","u","a","l"," ","b","a","s","i","c">>
  ELSE lang

\* str.replace(' ', '')
replace_spaces(s) == SelectSeq(s, LAMBDA ch : ch # " ")

(***************************************************************************)
(* query_language_pair: the statement text.  The f-string template is      *)
(* fixed; a statement is represented by the values interpolated into it.   *)
(***************************************************************************)
\* "%<" + tag_langs[x] + ">%" if x in tag_langs else "%<" + x + ">%"
qlp_tag_plain(x) == <<"%","<">> \o x \o <<">","%">>

qlp_tag(x) ==
  IF x \in DOMAIN tag_langs
  THEN <<"%","<">> \o tag_langs[x] \o <<">","%">>
  ELSE <<"%","<">> \o x \o <<">","%">>

\* the SELECT statement of query_language_pair(a, b)
query_language_pair_sql(a, b) ==
  << [kind  |-> "select_posts",
      alias |-> <<>>,
      atag  |-> qlp_tag(a),
      btag  |-> qlp_tag(b),
      btext |-> fix_lang_text(b)] >>

\* f'{path}/{a_filename}_{b_filename}.csv'
pair_csv(p, a, b) ==
  p \o <<"/">> \o lang_file_name(a) \o <<"_">> \o lang_file_name(b)
    \o <<".","c","s","v">>

(***************************************************************************)
(* build_sql_expr: the chained count statement.                            *)
(***************************************************************************)
sql_head == [kind |-> "head", alias |-> <<>>, atag |-> <<>>, btag |-> <<>>, btext |-> <<>>]

\* the ',\n' appended after a subselect
sql_sep == [kind |-> "sep", alias |-> <<>>, atag |-> <<>>, btag |-> <<>>, btext |-> <<>>]

bse_atag(a) ==
  IF a \in DOMAIN tag_langs
  THEN <<"%","<">> \o tag_langs[a] \o <<">","%">>
  ELSE <<"%","<">> \o a \o <<">","%">>

bse_btag(l) ==
  IF l \in DOMAIN tag_langs
  THEN <<"%","<">> \o tag_langs[l] \o <<">","%">>
  ELSE <<"%","<">> \o l \o <<">","%">>

lang_no_space(l) == replace_spaces(lang_file_name(l))

\* the subselect appended for target l
subselect(a, l) ==
  [kind  |-> "count_subselect",
   alias |-> lang_no_space(l),
   atag  |-> bse_atag(a),
   btag  |-> bse_btag(l),
   btext |-> fix_lang_text(l)]

\* `if l != a:`
emits_subselect_always(a, l) == TRUE

emits_subselect_drop_swift(a, l) ==
  l # a /\ ~(a = <<"v","i","s","u","a","l"," ","b","a","s","i","c">>
             /\ l = <<"s","w","i","f","t">>)

emits_subselect(a, l) == l # a

\* `if a == 'visual basic': if l == 'swift': continue`
skips_separator_never(a, l) == FALSE

skips_separator(a, l) ==
  a = <<"v","i","s","u","a","l"," ","b","a","s","i","c">> /\ l = <<"s","w","i","f","t">>

\* `if i != len(langs) - 1` (i is 0-based in the code, 1-based here)
not_last(i) == i # Len(langs)

\* one iteration of `for i, l in enumerate(langs)`
build_step(a, i, sql_expr) ==
  LET l == langs[i] IN
  IF emits_subselect(a, l)
  THEN LET s1 == Append(sql_expr, subselect(a, l)) IN
       IF skips_separator(a, l) THEN s1
       ELSE IF not_last(i) THEN Append(s1, sql_sep)
       ELSE s1
  ELSE sql_expr

RECURSIVE build_loop(_, _, _)
build_loop(a, i, sql_expr) ==
  IF i > Len(langs) THEN sql_expr
  ELSE build_loop(a, i + 1, build_step(a, i, sql_expr))

build_sql_expr(a) == build_loop(a, 1, <<sql_head>>)

\* f'langcounts/{csv_name}.csv'
count_csv(l) ==
  <<"l","a","n","g","c","o","u","n","t","s","/">> \o lang_file_name(l)
    \o <<".","c","s","v">>

(***************************************************************************)
(* The remote store: evaluation of the two WHERE clauses on one row P of   *)
(* `sotorrent-org.2018_12_09.Posts`.                                       *)
(***************************************************************************)
\* s contains m as a substring
Contains(s, m) ==
  \E i \in 1..(Len(s) - Len(m) + 1) : SubSeq(s, i, i + Len(m) - 1) = m

\* P.Tags LIKE '%...%'
tags_like(tags, pat) == Contains(tags, SubSeq(pat, 2, Len(pat) - 1))

\* P.Title LIKE pat, P.Body LIKE pat: a row carries, for its title and its
\* body, the set of text patterns the store matches against it
text_like(text, pat) == pat \in text

\* WHERE clause of the query_language_pair statement
where_posts(q, row) ==
  /\ row.PostTypeId = 1
  /\ \/ (tags_like(row.Tags, q.atag) /\ tags_like(row.Tags, q.btag))
     \/ (tags_like(row.Tags, q.atag)
          /\ (text_like(row.Title, q.btext) \/ text_like(row.Body, q.btext)))
  /\ row.Score >= 0
  /\ row.AcceptedAnswerId # "NULL"

\* WHERE clause of one subselect of the build_sql_expr statement
where_count(q, row) ==
  /\ row.PostTypeId = 1
  /\ \/ (tags_like(row.Tags, q.atag) /\ tags_like(row.Tags, q.btag))
     \/ (tags_like(row.Tags, q.atag)
          /\ (text_like(row.Title, q.btext) \/ text_like(row.Body, q.btext)))
  /\ row.Score >= 0

\* client.query(query).to_dataframe() for the query_language_pair statement
select_posts(stmt, row) == IF where_posts(stmt[1], row) THEN {row} ELSE {}

\* client.query(sql_expr).to_dataframe() for the build_sql_expr statement:
\* one row, one COUNT(distinct P.Id) column per subselect
select_counts(stmt, row) ==
  LET subs == SelectSeq(stmt, LAMBDA q : q.kind = "count_subselect") IN
  [k \in 1..Len(subs) |->
     [alias |-> subs[k].alias,
      count |-> IF where_count(subs[k], row) THEN 1 ELSE 0]]

\* rows the remote table may hold
Rows ==
  [Id : {1},
   PostTypeId : {1, 2},
   Score : (-1)..MaxScore,
   AcceptedAnswerId : {"NULL", "2"},
   Tags : { <<"<","p","y","t","h","o","n",">">>,
            <<"<","p","y","t","h","o","n",">","<","c","+","+",">">> },
   Title : { {}, { <<"/","\\","b","c","+","+","\\","b","/">> } },
   Body : { {}, { <<"/","\\","b","c","+","+","\\","b","/">> } }]

NoRow ==
  [Id |-> 0, PostTypeId |-> 0, Score |-> 0, AcceptedAnswerId |-> "NULL",
   Tags |-> <<>>, Title |-> {}, Body |-> {}]

(***************************************************************************)
(* query_pairs: the hardcoded pairs, as file tokens.                       *)
(***************************************************************************)
prev_swapped ==
  << <<"c","s">>, <<"c">>, <<"c","l","o","j","u","r","e">>, <<"j","a","v","a">>,
     <<"k","o","t","l","i","n">>, <<"l","u","a">>, <<"m","a","t","l","a","b">>,
     <<"n","o","d","e">>, <<"o","b","j","e","c","t","i","v","e","c">>,
     <<"p","e","r","l">>, <<"p","h","p">>, <<"p","y","t","h","o","n">>, <<"r">>,
     <<"r","u","b","y">>, <<"s","c","a","l","a">> >>

prev ==
  << <<"c">>, <<"c","s">>, <<"c","l","o","j","u","r","e">>, <<"j","a","v","a">>,
     <<"k","o","t","l","i","n">>, <<"l","u","a">>, <<"m","a","t","l","a","b">>,
     <<"n","o","d","e">>, <<"o","b","j","e","c","t","i","v","e","c">>,
     <<"p","e","r","l">>, <<"p","h","p">>, <<"p","y","t","h","o","n">>, <<"r">>,
     <<"r","u","b","y">>, <<"s","c","a","l","a">> >>

target ==
  << <<"c","p","p">>, <<"v","i","s","u","a","l","b","a","s","i","c">>,
     <<"j","a","v","a">>, <<"c","s">>, <<"j","a","v","a">>, <<"c","p","p">>,
     <<"p","y","t","h","o","n">>, <<"p","h","p">>, <<"s","w","i","f","t">>,
     <<"p","y","t","h","o","n">>, <<"j","a","v","a">>, <<"c","p","p">>,
     <<"p","y","t","h","o","n">>, <<"p","y","t","h","o","n">>,
     <<"j","a","v","a">> >>

\* zip(prev, target)
zip_len == IF Len(prev) < Len(target) THEN Len(prev) ELSE Len(target)

(***************************************************************************)
(* Events of the log.                                                      *)
(***************************************************************************)
ev_query(ok) == [ev |-> "query", ok |-> ok, file |-> <<>>]

ev_write(f) == [ev |-> "write", ok |-> TRUE, file |-> f]

(***************************************************************************)
(* Arguments the helpers are applied to: the listed languages, the file    *)
(* tokens, the tag texts and names that are in no table.                   *)
(***************************************************************************)
Range(f) == {f[i] : i \in DOMAIN f}

Names ==
  Range(langs_literal) \cup
  { <<"c","s">>, <<"c","p","p">>, <<"o","b","j","e","c","t","i","v","e","c">>,
    <<"v","i","s","u","a","l","b","a","s","i","c">>,
    <<"v","b",".","n","e","t">>, <<"n","o","d","e",".","j","s">>,
    <<"o","b","j","e","c","t","i","v","e","-","c">>,
    <<"i","n"," ","c">>, <<"t","y","p","e","s","c","r","i","p","t">> }

(***************************************************************************)
(* Initial state: the module has been loaded (langs.sort() has run) and no *)
(* function has been called.                                               *)
(***************************************************************************)
Init ==
  /\ langs = list_sort(langs_literal)
  /\ pc = "idle"
  /\ call = "none"
  /\ h_in = <<>>
  /\ h_ops = <<>>
  /\ h_out = <<>>
  /\ arg_a = <<>>
  /\ arg_b = <<>>
  /\ arg_path = <<>>
  /\ idx = 0
  /\ sql = <<>>
  /\ P = NoRow
  /\ df = <<>>
  /\ log = <<>>
  /\ calls = <<>>

(***************************************************************************)
(* Calls of the three helpers, chained: the first takes an argument from   *)
(* Names, a later one takes the value the previous one returned.           *)
(***************************************************************************)
helper_guard ==
  /\ pc = "idle"
  /\ call \in {"none", "helper"}
  /\ Len(h_ops) < MaxOps

helper_unchanged == UNCHANGED <<langs, pc, arg_a, arg_b, arg_path, idx, sql, P, df, log, calls>>

call_fix_lang_text ==
  /\ helper_guard
  /\ \E x \in (IF h_ops = <<>> THEN Names ELSE {h_out}) :
       /\ h_in' = (IF h_ops = <<>> THEN x ELSE h_in)
       /\ h_out' = fix_lang_text(x)
  /\ h_ops' = Append(h_ops, "fix_lang_text")
  /\ call' = "helper"
  /\ helper_unchanged

call_lang_file_name ==
  /\ helper_guard
  /\ \E x \in (IF h_ops = <<>> THEN Names ELSE {h_out}) :
       /\ h_in' = (IF h_ops = <<>> THEN x ELSE h_in)
       /\ h_out' = lang_file_name(x)
  /\ h_ops' = Append(h_ops, "lang_file_name")
  /\ call' = "helper"
  /\ helper_unchanged

call_revert_lang_file_name ==
  /\ helper_guard
  /\ \E x \in (IF h_ops = <<>> THEN Names ELSE {h_out}) :
       /\ h_in' = (IF h_ops = <<>> THEN x ELSE h_in)
       /\ h_out' = revert_lang_file_name(x)
  /\ h_ops' = Append(h_ops, "revert_lang_file_name")
  /\ call' = "helper"
  /\ helper_unchanged

(***************************************************************************)
(* build_sql_expr(a), called on its own.                                   *)
(***************************************************************************)
call_build_sql_expr ==
  /\ pc = "idle"
  /\ call = "none"
  /\ \E x \in Range(langs) :
       /\ arg_a' = x
       /\ sql' = build_sql_expr(x)
  /\ call' = "build_sql_expr"
  /\ pc' = "done"
  /\ UNCHANGED <<langs, h_in, h_ops, h_out, arg_b, arg_path, idx, P, df, log, calls>>

(***************************************************************************)
(* query_language_pair(a, b, path).                                        *)
(***************************************************************************)
\* a direct call, with the default path './'
call_query_language_pair ==
  /\ pc = "idle"
  /\ call = "none"
  /\ \E x \in Range(langs), y \in Range(langs) :
       /\ arg_a' = x
       /\ arg_b' = y
       /\ calls' = Append(calls, <<x, y>>)
  /\ arg_path' = <<".","/">>
  /\ call' = "query_language_pair"
  /\ pc' = "qlp_query"
  /\ UNCHANGED <<langs, h_in, h_ops, h_out, idx, sql, P, df, log>>

\* the statement is built and client.query(...).to_dataframe() returns
qlp_query_ok ==
  /\ pc = "qlp_query"
  /\ LET query == query_language_pair_sql(arg_a, arg_b) IN
       /\ sql' = query
       /\ \E row \in Rows :
            /\ P' = row
            /\ df' = select_posts(query, row)
  /\ log' = Append(log, ev_query(TRUE))
  /\ pc' = "qlp_save"
  /\ UNCHANGED <<langs, call, h_in, h_ops, h_out, arg_a, arg_b, arg_path, idx, calls>>

\* client.query(...).to_dataframe() raises: nothing catches the exception
qlp_query_fail ==
  /\ pc = "qlp_query"
  /\ sql' = query_language_pair_sql(arg_a, arg_b)
  /\ log' = Append(log, ev_query(FALSE))
  /\ pc' = "failed"
  /\ UNCHANGED <<langs, call, h_in, h_ops, h_out, arg_a, arg_b, arg_path, idx, P, df, calls>>

\* df.to_csv(...); the function returns, to query_pairs when it called
qlp_save ==
  /\ pc = "qlp_save"
  /\ log' = Append(log, ev_write(pair_csv(arg_path, arg_a, arg_b)))
  /\ IF call = "query_pairs"
     THEN pc' = "qp_loop" /\ idx' = idx + 1
     ELSE pc' = "done" /\ idx' = idx
  /\ UNCHANGED <<langs, call, h_in, h_ops, h_out, arg_a, arg_b, arg_path, sql, P, df, calls>>

(***************************************************************************)
(* query_pairs().                                                          *)
(***************************************************************************)
call_query_pairs ==
  /\ pc = "idle"
  /\ call = "none"
  /\ call' = "query_pairs"
  /\ pc' = "qp_loop"
  /\ idx' = 1
  /\ UNCHANGED <<langs, h_in, h_ops, h_out, arg_a, arg_b, arg_path, sql, P, df, log, calls>>

\* one iteration of `for p, t in zip(prev, target)` up to the call
qp_iter ==
  /\ pc = "qp_loop"
  /\ idx <= zip_len
  /\ arg_a' = revert_lang_file_name(prev[idx])
  /\ arg_b' = revert_lang_file_name(target[idx])
  /\ arg_path' = DIR
  /\ calls' = Append(calls, <<revert_lang_file_name(prev[idx]),
                              revert_lang_file_name(target[idx])>>)
  /\ pc' = "qlp_query"
  /\ UNCHANGED <<langs, call, h_in, h_ops, h_out, idx, sql, P, df, log>>

qp_done ==
  /\ pc = "qp_loop"
  /\ idx > zip_len
  /\ pc' = "done"
  /\ UNCHANGED <<langs, call, h_in, h_ops, h_out, arg_a, arg_b, arg_path, idx, sql, P, df, log, calls>>

(***************************************************************************)
(* query_all().                                                            *)
(***************************************************************************)
call_query_all ==
  /\ pc = "idle"
  /\ call = "none"
  /\ call' = "query_all"
  /\ pc' = "qa_loop"
  /\ idx' = 1
  /\ UNCHANGED <<langs, h_in, h_ops, h_out, arg_a, arg_b, arg_path, sql, P, df, log, calls>>

\* build_sql_expr(l), then client.query(sql_expr).to_dataframe() returns
qa_query_ok ==
  /\ pc = "qa_loop"
  /\ idx <= Len(langs)
  /\ arg_a' = langs[idx]
  /\ LET sql_expr == build_sql_expr(langs[idx]) IN
       /\ sql' = sql_expr
       /\ \E row \in Rows :
            /\ P' = row
            /\ df' = select_counts(sql_expr, row)
  /\ log' = Append(log, ev_query(TRUE))
  /\ pc' = "qa_save"
  /\ UNCHANGED <<langs, call, h_in, h_ops, h_out, arg_b, arg_path, idx, calls>>

qa_query_fail_swallowed ==
  /\ pc = "qa_loop"
  /\ idx <= Len(langs)
  /\ arg_a' = langs[idx]
  /\ sql' = build_sql_expr(langs[idx])
  /\ log' = Append(log, ev_query(FALSE))
  /\ pc' = "qa_save"
  /\ UNCHANGED <<langs, call, h_in, h_ops, h_out, arg_b, arg_path, idx, P, df, calls>>

\* client.query(sql_expr).to_dataframe() raises: nothing catches the exception
qa_query_fail ==
  /\ pc = "qa_loop"
  /\ idx <= Len(langs)
  /\ arg_a' = langs[idx]
  /\ sql' = build_sql_expr(langs[idx])
  /\ log' = Append(log, ev_query(FALSE))
  /\ pc' = "failed"
  /\ UNCHANGED <<langs, call, h_in, h_ops, h_out, arg_b, arg_path, idx, P, df, calls>>

\* df.to_csv(f'langcounts/{csv_name}.csv', index=False)
qa_save ==
  /\ pc = "qa_save"
  /\ log' = Append(log, ev_write(count_csv(langs[idx])))
  /\ idx' = idx + 1
  /\ pc' = "qa_loop"
  /\ UNCHANGED <<langs, call, h_in, h_ops, h_out, arg_a, arg_b, arg_path, sql, P, df, calls>>

qa_done ==
  /\ pc = "qa_loop"
  /\ idx > Len(langs)
  /\ pc' = "done"
  /\ UNCHANGED <<langs, call, h_in, h_ops, h_out, arg_a, arg_b, arg_path, idx, sql, P, df, log, calls>>

Next ==
  \/ call_fix_lang_text
  \/ call_lang_file_name
  \/ call_revert_lang_file_name
  \/ call_build_sql_expr
  \/ call_query_language_pair
  \/ qlp_query_ok
  \/ qlp_query_fail
  \/ qlp_save
  \/ call_query_pairs
  \/ qp_iter
  \/ qp_done
  \/ call_query_all
  \/ qa_query_ok
  \/ qa_query_fail
  \/ qa_save
  \/ qa_done

Spec == Init /\ [][Next]_vars

(***************************************************************************)
(* Reference tables and views used by the properties below.                *)
(***************************************************************************)
\* the file tokens of the languages, written out in sorted-language order
ExpectedTokens ==
  << <<"c">>,
     <<"c","s">>,
     <<"c","p","p">>,
     <<"c","l","o","j","u","r","e">>,
     <<"c","o","b","o","l">>,
     <<"e","r","l","a","n","g">>,
     <<"f","o","r","t","r","a","n">>,
     <<"g","o">>,
     <<"h","a","s","k","e","l","l">>,
     <<"j","a","v","a">>,
     <<"k","o","t","l","i","n">>,
     <<"l","i","s","p">>,
     <<"l","u","a">>,
     <<"m","a","t","l","a","b">>,
     <<"n","o","d","e">>,
     <<"o","b","j","e","c","t","i","v","e","c">>,
     <<"p","a","s","c","a","l">>,
     <<"p","e","r","l">>,
     <<"p","h","p">>,
     <<"p","y","t","h","o","n">>,
     <<"r">>,
     <<"r","u","b","y">>,
     <<"r","u","s","t">>,
     <<"s","c","a","l","a">>,
     <<"s","w","i","f","t">>,
     <<"v","i","s","u","a","l","b","a","s","i","c">> >>

RemoveAt(s, i) == SubSeq(s, 1, i - 1) \o SubSeq(s, i + 1, Len(s))

IndexIn(s, x) == CHOOSE i \in 1..Len(s) : s[i] = x

\* sql holds the statement build_sql_expr(arg_a) returned
CountStmtBuilt == call \in {"build_sql_expr", "query_all"} /\ sql # <<>>

\* sql holds the statement query_language_pair built for (arg_a, arg_b)
PairStmtBuilt ==
  call \in {"query_language_pair", "query_pairs"} /\ sql # <<>> /\ pc # "qlp_query"

Subselects == SelectSeq(sql, LAMBDA q : q.kind = "count_subselect")

Separators == SelectSeq(sql, LAMBDA q : q.kind = "sep")

LastLang == langs[Len(langs)]

\* the languages other than arg_a, in the order of the sorted list
Targets == SelectSeq(langs, LAMBDA l : l # arg_a)

(***************************************************************************)
(* C1: for every source language a of the sorted list other than the last  *)
(* one, build_sql_expr(a) emits exactly len(langs) - 1 subselects, one for *)
(* each language l # a and none for a, in the order of the sorted list,    *)
(* and their aliases are pairwise distinct and contain no space.           *)
(***************************************************************************)
C1_SubselectsPerTarget ==
  (CountStmtBuilt /\ arg_a # LastLang) =>
    /\ Len(Subselects) = Len(langs) - 1
    /\ [k \in 1..Len(Subselects) |-> Subselects[k].alias]
         = RemoveAt(ExpectedTokens, IndexIn(langs, arg_a))
    /\ \A j, k \in 1..Len(Subselects) :
         j # k => Subselects[j].alias # Subselects[k].alias
    /\ \A k \in 1..Len(Subselects) : " " \notin Range(Subselects[k].alias)

C1_Witness ==
  /\ call = "query_all"
  /\ pc = "qa_save"
  /\ arg_a = <<"p","y","t","h","o","n">>
  /\ Len(Subselects) = 25

(***************************************************************************)
(* C2 as stated: when the source is the last language of the sorted list   *)
(* ("visual basic"), build_sql_expr emits len(langs) - 2 subselects and    *)
(* the one for "swift" is dropped.                                         *)
(***************************************************************************)
C2_SwiftDropped ==
  (CountStmtBuilt /\ arg_a = LastLang) =>
    /\ Len(Subselects) = Len(langs) - 2
    /\ \A k \in 1..Len(Subselects) : Subselects[k].alias # <<"s","w","i","f","t">>

(***************************************************************************)
(* C2 amended: when the source is the last language of the sorted list     *)
(* ("visual basic"), build_sql_expr emits len(langs) - 1 subselects, one   *)
(* for every other language; the one for "swift" is kept, it is the last   *)
(* part of the statement and only the separator after it is left out.      *)
(***************************************************************************)
C2_SwiftKeptLast ==
  (CountStmtBuilt /\ arg_a = LastLang) =>
    /\ arg_a = <<"v","i","s","u","a","l"," ","b","a","s","i","c">>
    /\ Len(Subselects) = Len(langs) - 1
    /\ [k \in 1..Len(Subselects) |-> Subselects[k].alias]
         = RemoveAt(ExpectedTokens, Len(ExpectedTokens))
    /\ sql[Len(sql)].kind = "count_subselect"
    /\ sql[Len(sql)].alias = <<"s","w","i","f","t">>

C2_Witness ==
  /\ call = "build_sql_expr"
  /\ pc = "done"
  /\ arg_a = <<"v","i","s","u","a","l"," ","b","a","s","i","c">>
  /\ Len(Subselects) = 25

(***************************************************************************)
(* C10: for every source language a of the list, the last one included,    *)
(* the statement of build_sql_expr(a) has exactly one ',\n' separator      *)
(* after every emitted subselect except the last emitted one and none      *)
(* after the last, so the separators number the subselects minus one.      *)
(***************************************************************************)
C10_SeparatorsWellFormed ==
  CountStmtBuilt =>
    /\ sql[1].kind = "head"
    /\ \A k \in 2..Len(sql) :
         sql[k].kind = (IF k % 2 = 0 THEN "count_subselect" ELSE "sep")
    /\ sql[Len(sql)].kind = "count_subselect"
    /\ Len(Separators) = Len(Subselects) - 1

C10_Witness ==
  /\ call = "query_all"
  /\ pc = "qa_save"
  /\ arg_a = <<"v","i","s","u","a","l"," ","b","a","s","i","c">>
  /\ Len(Separators) = 24

(***************************************************************************)
(* C3: lang_file_name and revert_lang_file_name round-trip on the listed   *)
(* languages and on their file tokens; the four overrides are c# <-> cs,   *)
(* c++ <-> cpp, objective c <-> objectivec, visual basic <-> visualbasic,  *)
(* and both functions map every other listed language to itself.           *)
(***************************************************************************)
C3_Overrides ==
  { << <<"c","#">>, <<"c","s">> >>,
    << <<"c","+","+">>, <<"c","p","p">> >>,
    << <<"o","b","j","e","c","t","i","v","e"," ","c">>,
       <<"o","b","j","e","c","t","i","v","e","c">> >>,
    << <<"v","i","s","u","a","l"," ","b","a","s","i","c">>,
       <<"v","i","s","u","a","l","b","a","s","i","c">> >> }

C3_RoundTrip ==
  /\ (h_ops = <<"lang_file_name", "revert_lang_file_name">> /\ h_in \in Range(langs))
        => h_out = h_in
  /\ (h_ops = <<"revert_lang_file_name", "lang_file_name">>
        /\ h_in \in Range(ExpectedTokens))
        => h_out = h_in
  /\ (h_ops = <<"lang_file_name">> /\ h_in \in Range(langs)) =>
        /\ h_out = ExpectedTokens[IndexIn(langs, h_in)]
        /\ \A o \in C3_Overrides : h_in = o[1] => h_out = o[2]
        /\ (h_in \notin {o[1] : o \in C3_Overrides}) => h_out = h_in
  /\ (h_ops = <<"revert_lang_file_name">>) =>
        /\ \A o \in C3_Overrides : h_in = o[2] => h_out = o[1]
        /\ (h_in \in Range(langs) /\ h_in \notin {o[1] : o \in C3_Overrides})
              => h_out = h_in

C3_Witness ==
  /\ h_ops = <<"lang_file_name", "revert_lang_file_name">>
  /\ h_in = <<"c","#">>
  /\ h_out = <<"c","#">>

(***************************************************************************)
(* C7: fix_lang_text returns the 'in X' phrase pattern exactly when the    *)
(* language is "c", "r" or "go"; for every other listed language and for   *)
(* any other name it returns the plain word-boundary pattern holding the   *)
(* name verbatim, never the tag override or the file token.                *)
(***************************************************************************)
C7_InNames == { <<"c">>, <<"r">>, <<"g","o">> }

C7_InPattern(x) == <<"/","\\","b","i","n"," ">> \o x \o <<"\\","b","/">>

C7_PlainPattern(x) == <<"/","\\","b">> \o x \o <<"\\","b","/">>

C7_FixLangText ==
  (h_ops = <<"fix_lang_text">>) =>
    /\ h_in \in C7_InNames => h_out = C7_InPattern(h_in)
    /\ h_in \notin C7_InNames => h_out = C7_PlainPattern(h_in)
    /\ (h_in \in Range(langs) /\ h_in \notin C7_InNames)
          => h_out \notin {C7_InPattern(x) : x \in C7_InNames}
    /\ h_in \in DOMAIN tag_langs => h_out # C7_PlainPattern(tag_langs[h_in])
    /\ \A o \in C3_Overrides : h_in = o[1] => h_out # C7_PlainPattern(o[2])

C7_Witness ==
  /\ h_ops = <<"fix_lang_text">>
  /\ h_in = <<"g","o">>
  /\ h_out = <<"/","\\","b","i","n"," ","g","o","\\","b","/">>

(***************************************************************************)
(* C4: a run of query_pairs in which no remote query fails invokes         *)
(* query_language_pair exactly 15 times; the k-th invocation receives the  *)
(* canonical names of the k-th pair of the docstring, in that order; every *)
(* name passed is a listed language and no pair has source = target.       *)
(***************************************************************************)
C4_Documented ==
  << <<<<"c">>, <<"c","+","+">>>>,
     <<<<"c","#">>, <<"v","i","s","u","a","l"," ","b","a","s","i","c">>>>,
     <<<<"c","l","o","j","u","r","e">>, <<"j","a","v","a">>>>,
     <<<<"j","a","v","a">>, <<"c","#">>>>,
     <<<<"k","o","t","l","i","n">>, <<"j","a","v","a">>>>,
     <<<<"l","u","a">>, <<"c","+","+">>>>,
     <<<<"m","a","t","l","a","b">>, <<"p","y","t","h","o","n">>>>,
     <<<<"n","o","d","e">>, <<"p","h","p">>>>,
     <<<<"o","b","j","e","c","t","i","v","e"," ","c">>, <<"s","w","i","f","t">>>>,
     <<<<"p","e","r","l">>, <<"p","y","t","h","o","n">>>>,
     <<<<"p","h","p">>, <<"j","a","v","a">>>>,
     <<<<"p","y","t","h","o","n">>, <<"c","+","+">>>>,
     <<<<"r">>, <<"p","y","t","h","o","n">>>>,
     <<<<"r","u","b","y">>, <<"p","y","t","h","o","n">>>>,
     <<<<"s","c","a","l","a">>, <<"j","a","v","a">>>> >>

C4_DocumentedPairsInOrder ==
  (call = "query_pairs") =>
    /\ Len(calls) <= Len(C4_Documented)
    /\ calls = SubSeq(C4_Documented, 1, Len(calls))
    /\ \A k \in 1..Len(calls) :
         /\ calls[k][1] \in Range(langs)
         /\ calls[k][2] \in Range(langs)
         /\ calls[k][1] # calls[k][2]
    /\ (pc = "done") => (Len(calls) = 15 /\ calls = C4_Documented)

C4_Witness ==
  /\ call = "query_pairs"
  /\ pc = "done"
  /\ Len(calls) = 15
  /\ calls[15] = << <<"s","c","a","l","a">>, <<"j","a","v","a">> >>

(***************************************************************************)
(* C5: for a language with a tag override (visual basic -> vb.net,         *)
(* node -> node.js, objective c -> objective-c) every tag LIKE pattern     *)
(* generated for it, as source or as target, by query_language_pair or by  *)
(* build_sql_expr, is '%<override>%' and never '%<name>%'; for a language  *)
(* without an override the tag pattern is '%<name>%'.                      *)
(***************************************************************************)
C5_ExpectedTag(l) ==
  IF l = <<"v","i","s","u","a","l"," ","b","a","s","i","c">>
  THEN <<"%","<","v","b",".","n","e","t",">","%">>
  ELSE IF l = <<"n","o","d","e">>
  THEN <<"%","<","n","o","d","e",".","j","s",">","%">>
  ELSE IF l = <<"o","b","j","e","c","t","i","v","e"," ","c">>
  THEN <<"%","<","o","b","j","e","c","t","i","v","e","-","c",">","%">>
  ELSE <<"%","<">> \o l \o <<">","%">>

C5_Overridden ==
  { <<"v","i","s","u","a","l"," ","b","a","s","i","c">>, <<"n","o","d","e">>,
    <<"o","b","j","e","c","t","i","v","e"," ","c">> }

C5_TagOverrideUsed ==
  /\ PairStmtBuilt =>
       /\ sql[1].atag = C5_ExpectedTag(arg_a)
       /\ sql[1].btag = C5_ExpectedTag(arg_b)
       /\ arg_a \in C5_Overridden => sql[1].atag # <<"%","<">> \o arg_a \o <<">","%">>
       /\ arg_b \in C5_Overridden => sql[1].btag # <<"%","<">> \o arg_b \o <<">","%">>
  /\ CountStmtBuilt =>
       /\ Len(Subselects) = Len(Targets)
       /\ \A k \in 1..Len(Subselects) :
            /\ Subselects[k].atag = C5_ExpectedTag(arg_a)
            /\ Subselects[k].btag = C5_ExpectedTag(Targets[k])
            /\ arg_a \in C5_Overridden
                 => Subselects[k].atag # <<"%","<">> \o arg_a \o <<">","%">>
            /\ Targets[k] \in C5_Overridden
                 => Subselects[k].btag # <<"%","<">> \o Targets[k] \o <<">","%">>

C5_Witness ==
  /\ call = "query_language_pair"
  /\ pc = "qlp_save"
  /\ arg_a = <<"n","o","d","e">>
  /\ arg_b = <<"v","i","s","u","a","l"," ","b","a","s","i","c">>
  /\ sql[1].atag = <<"%","<","n","o","d","e",".","j","s",">","%">>
  /\ sql[1].btag = <<"%","<","v","b",".","n","e","t",">","%">>

(***************************************************************************)
(* C6: every count of the all-targets query counts only accepted-answer    *)
(* questions: for source a and target l # a, the subselect for l in        *)
(* build_sql_expr(a) counts a post only if its AcceptedAnswerId is not     *)
(* null, so it counts exactly the posts query_language_pair(a, l) selects. *)
(***************************************************************************)
C6_CountsMatchPairQuery ==
  (call = "query_all" /\ pc = "qa_save") =>
    \A k \in 1..Len(df) :
      /\ df[k].count = Cardinality(select_posts(query_language_pair_sql(arg_a, Targets[k]), P))
      /\ (df[k].count > 0) => (P.AcceptedAnswerId # "NULL")

(***************************************************************************)
(* C8: in both batch drivers the files written so far are those of a       *)
(* prefix of the item sequence; an item's file is written only after its   *)
(* own query returned and before the next query is issued; when the query  *)
(* of item k fails nothing catches it: no file for item k, no later query  *)
(* or file, no retry, and the files of items 1..k-1 remain.                *)
(***************************************************************************)
C8_ItemFile(k) ==
  IF call = "query_all"
  THEN <<"l","a","n","g","c","o","u","n","t","s","/">> \o ExpectedTokens[k] \o <<".","c","s","v">>
  ELSE DIR \o <<"/">> \o prev[k] \o <<"_">> \o target[k] \o <<".","c","s","v">>

C8_ItemCount == IF call = "query_all" THEN Len(langs) ELSE 15

C8_PrefixAndAbort ==
  (call \in {"query_all", "query_pairs"}) =>
    /\ Len(log) <= 2 * C8_ItemCount
    /\ \A j \in 1..Len(log) :
         IF j % 2 = 1
         THEN /\ log[j].ev = "query"
              /\ (j < Len(log)) => log[j].ok
         ELSE /\ log[j].ev = "write"
              /\ log[j - 1].ok
              /\ log[j].file = C8_ItemFile(j \div 2)
    /\ (pc = "failed") <=> (Len(log) > 0 /\ ~log[Len(log)].ok)
    /\ (pc = "failed") => (Len(log) = 2 * idx - 1 /\ ~ENABLED Next)
    /\ (pc = "done") => (Len(log) = 2 * C8_ItemCount)

C8_Witness ==
  /\ call = "query_all"
  /\ pc = "failed"
  /\ idx = 3
  /\ Len(log) = 5
  /\ log[2].file = <<"l","a","n","g","c","o","u","n","t","s","/","c",".","c","s","v">>
  /\ log[4].file = <<"l","a","n","g","c","o","u","n","t","s","/","c","s",".","c","s","v">>

(***************************************************************************)
(* C9: query_language_pair(a, b, path) writes exactly one file,            *)
(* path/{token(a)}_{token(b)}.csv, and query_all writes                    *)
(* langcounts/{token(l)}.csv; distinct ordered pairs give distinct pair    *)
(* file names and distinct languages distinct langcounts names, so within  *)
(* one run no iteration overwrites a file of another iteration.            *)
(***************************************************************************)
C9_Writes == SelectSeq(log, LAMBDA e : e.ev = "write")

C9_Token(l) == ExpectedTokens[IndexIn(langs, l)]

C9_PairName(p, x, y) ==
  p \o <<"/">> \o C9_Token(x) \o <<"_">> \o C9_Token(y) \o <<".","c","s","v">>

C9_FilesIndependent ==
  /\ \A j, k \in 1..Len(C9_Writes) : j # k => C9_Writes[j].file # C9_Writes[k].file
  /\ (call = "query_language_pair" /\ pc = "done") =>
       /\ Len(C9_Writes) = 1
       /\ C9_Writes[1].file = C9_PairName(arg_path, arg_a, arg_b)
       /\ \A x, y \in Range(langs) :
            (<<x, y>> # <<arg_a, arg_b>>)
              => pair_csv(arg_path, x, y) # C9_Writes[1].file
  /\ (call = "query_pairs" /\ pc = "qp_loop" /\ idx > 1) =>
       C9_Writes[Len(C9_Writes)].file = C9_PairName(DIR, arg_a, arg_b)
  /\ (call = "query_all" /\ pc = "qa_loop" /\ idx > 1) =>
       /\ C9_Writes[Len(C9_Writes)].file
            = <<"l","a","n","g","c","o","u","n","t","s","/">> \o C9_Token(arg_a)
                \o <<".","c","s","v">>
       /\ \A x \in Range(langs) :
            x # arg_a => count_csv(x) # C9_Writes[Len(C9_Writes)].file

C9_Witness ==
  /\ call = "query_language_pair"
  /\ pc = "done"
  /\ arg_a = <<"p","y","t","h","o","n">>
  /\ arg_b = <<"c","+","+">>
  /\ C9_Writes[1].file
       = <<".","/","/","p","y","t","h","o","n","_","c","p","p",".","c","s","v">>

====
